---- MODULE Spec2Model ----
(***************************************************************************)
(* Product / SKU consistency engine of the product-management backend.     *)
(* The model follows ProductsService (create, update, remove, updateSkus)  *)
(* together with the Product and SKU schemas.  Every handler runs inside   *)
(* session.withTransaction: its writes go to a transaction-local copy of   *)
(* the store that is committed when the callback returns and discarded     *)
(* when it throws.  sessions holds the transactions of the update calls    *)
(* that run concurrently (none when requests are served one at a time).    *)
(***************************************************************************)
EXTENDS Integers, Sequences, FiniteSets, TLC

VARIABLES products, skus, collections, lastOp, sessions

vars == <<products, skus, collections, lastOp, sessions>>

(***************************************************************************)
(* Bounds of the exploration.                                              *)
(***************************************************************************)
MaxPrice == 1
MaxQty == 1
MaxPatches == 2
MaxPatchKeys == 2

(***************************************************************************)
(* Identifiers.  ObjectIds are opaque; a malformed id string is the only   *)
(* value Types.ObjectId.isValid rejects.                                   *)
(***************************************************************************)
ProductIds == {"p1"}
MalformedId == "invalid-id"
Users == {"u1", "u2"}
\* the users that create products; the other user is the caller that does
\* not own them
Creators == {"u1"}
CollectionIds == {"c1"}
MissingCollectionId == "c9"

IsValidObjectIdAny(id) == TRUE

IsValidObjectId(id) == id # MalformedId

(***************************************************************************)
(* JavaScript objects are records whose DOMAIN is the set of keys present. *)
(***************************************************************************)
Has(obj, k) == k \in DOMAIN obj

\* !x for a string-valued optional field: absent or empty string
Falsy(obj, k) == ~Has(obj, k) \/ obj[k] = ""

\* { ...a, ...b }
Spread(a, b) ==
  [k \in (DOMAIN a) \cup (DOMAIN b) |-> IF k \in DOMAIN b THEN b[k] ELSE a[k]]

\* String.prototype.trim on the strings of the model
Trim(s) == IF s = " " THEN "" ELSE s

(***************************************************************************)
(* Errors: exception class and message.                                    *)
(***************************************************************************)
NoErr == [cls |-> "none", msg |-> "", detail |-> <<>>]
BadRequest(m) == [cls |-> "BadRequestException", msg |-> m, detail |-> <<>>]
NotFound(m) == [cls |-> "NotFoundException", msg |-> m, detail |-> <<>>]
Conflict(m) == [cls |-> "ConflictException", msg |-> m, detail |-> <<>>]
\* an error thrown by the store itself (driver or document validation)
StoreError(m) == [cls |-> "StoreError", msg |-> m, detail |-> <<>>]

(***************************************************************************)
(* Ordering of strings: position in the sorted alphabet of the model.      *)
(* Array.prototype.sort() without comparator orders by UTF-16 code units;  *)
(* localeCompare orders names; on this alphabet the two orders agree.      *)
(***************************************************************************)
Alphabet == <<"S", "blue", "color", "red", "size">>

Rank(s) == CHOOSE i \in 1..Len(Alphabet) : Alphabet[i] = s

RECURSIVE InsertValue(_, _)
\* insert the string x after every element that is <= x (stable)
InsertValue(seq, x) ==
  IF seq = <<>> THEN <<x>>
  ELSE IF Rank(Head(seq)) <= Rank(x)
       THEN <<Head(seq)>> \o InsertValue(Tail(seq), x)
       ELSE <<x>> \o seq

RECURSIVE SortValues(_)
\* [...variant.values].sort()
SortValues(seq) ==
  IF seq = <<>> THEN <<>>
  ELSE InsertValue(SortValues(SubSeq(seq, 1, Len(seq) - 1)), seq[Len(seq)])

RECURSIVE InsertVariant(_, _)
InsertVariant(seq, x) ==
  IF seq = <<>> THEN <<x>>
  ELSE IF Rank(Head(seq).name) <= Rank(x.name)
       THEN <<Head(seq)>> \o InsertVariant(Tail(seq), x)
       ELSE <<x>> \o seq

RECURSIVE SortVariants(_)
\* [...variants].sort((a, b) => a.name.localeCompare(b.name))
SortVariants(seq) ==
  IF seq = <<>> THEN <<>>
  ELSE InsertVariant(SortVariants(SubSeq(seq, 1, Len(seq) - 1)), seq[Len(seq)])

(***************************************************************************)
(* hasVariantsChanged.  An argument is [some |-> FALSE] for undefined or   *)
(* null and [some |-> TRUE, val |-> list] for an array (arrays are truthy, *)
(* the empty one included).                                                *)
(***************************************************************************)
None == [some |-> FALSE]
Some(v) == [some |-> TRUE, val |-> v]

NormalizeVariants(vs) ==
  LET sorted == SortVariants(vs)
  IN [i \in 1..Len(sorted) |->
        [name |-> sorted[i].name, values |-> SortValues(sorted[i].values)]]

\* JSON.stringify of an array of {name, values}: one token list per axis
StringifyVariants(vs) ==
  [i \in 1..Len(vs) |-> <<"name", vs[i].name, "values">> \o vs[i].values]

HasVariantsChangedNoSort(oldVariants, newVariants) ==
  IF ~oldVariants.some /\ ~newVariants.some THEN FALSE
  ELSE IF ~oldVariants.some \/ ~newVariants.some THEN TRUE
  ELSE IF Len(oldVariants.val) # Len(newVariants.val) THEN TRUE
  ELSE StringifyVariants(oldVariants.val) # StringifyVariants(newVariants.val)

HasVariantsChanged(oldVariants, newVariants) ==
  IF ~oldVariants.some /\ ~newVariants.some THEN FALSE
  ELSE IF ~oldVariants.some \/ ~newVariants.some THEN TRUE
  ELSE IF Len(oldVariants.val) # Len(newVariants.val) THEN TRUE
  ELSE StringifyVariants(NormalizeVariants(oldVariants.val))
         # StringifyVariants(NormalizeVariants(newVariants.val))

(***************************************************************************)
(* generateVariantCombinations.  A combination is an object whose keys     *)
(* keep their insertion order: a sequence of <<key, value>> pairs.         *)
(***************************************************************************)
KeyIndex(obj, k) ==
  IF \E i \in 1..Len(obj) : obj[i][1] = k
  THEN CHOOSE i \in 1..Len(obj) : obj[i][1] = k
  ELSE 0

\* current[k] = v : overwrite in place, or append a new key
SetKey(obj, k, v) ==
  IF KeyIndex(obj, k) = 0 THEN Append(obj, <<k, v>>)
  ELSE [obj EXCEPT ![KeyIndex(obj, k)] = <<k, v>>]

RECURSIVE Generate(_, _, _)
RECURSIVE GenerateValues(_, _, _, _)
Generate(variants, index, current) ==
  IF index = Len(variants) + 1 THEN <<current>>
  ELSE GenerateValues(variants, index, current, 1)

GenerateValues(variants, index, current, j) ==
  IF j > Len(variants[index].values) THEN <<>>
  ELSE Generate(variants, index + 1,
                SetKey(current, variants[index].name, variants[index].values[j]))
       \o GenerateValues(variants, index, current, j + 1)

GenerateVariantCombinationsNoneForEmpty(variants) ==
  IF Len(variants) = 0 THEN <<>> ELSE Generate(variants, 1, <<>>)

GenerateVariantCombinations(variants) ==
  IF Len(variants) = 0 THEN << <<>> >> ELSE Generate(variants, 1, <<>>)

RECURSIVE StringifyCombination(_)
\* JSON.stringify of a plain object or of a Map: the keys and values in
\* insertion order, {"k1":"v1","k2":"v2"} as the token list k1 v1 k2 v2
StringifyCombination(c) ==
  IF c = <<>> THEN <<>>
  ELSE <<Head(c)[1], Head(c)[2]>> \o StringifyCombination(Tail(c))

(***************************************************************************)
(* calculatePurchasable.  The skus argument is None when it is undefined   *)
(* and Some(list) otherwise; an element of the list is a populated         *)
(* document (a record with a quantity) or a bare id reference [_id |-> n]. *)
(***************************************************************************)
CalculatePurchasableAnyStatus(product, skuList) ==
  IF ~skuList.some \/ Len(skuList.val) = 0 THEN FALSE
  ELSE IF Has(skuList.val[1], "quantity")
       THEN \E i \in 1..Len(skuList.val) : skuList.val[i].quantity > 0
       ELSE FALSE

CalculatePurchasableAssumingStock(product, skuList) ==
  IF product.status # "published" THEN FALSE
  ELSE IF ~skuList.some \/ Len(skuList.val) = 0 THEN FALSE
  ELSE IF Has(skuList.val[1], "quantity")
       THEN \E i \in 1..Len(skuList.val) : skuList.val[i].quantity > 0
       ELSE TRUE

CalculatePurchasable(product, skuList) ==
  IF product.status # "published" THEN FALSE
  ELSE IF ~skuList.some \/ Len(skuList.val) = 0 THEN FALSE
  ELSE IF Has(skuList.val[1], "quantity")
       THEN \E i \in 1..Len(skuList.val) : skuList.val[i].quantity > 0
       ELSE FALSE

(***************************************************************************)
(* The store seen by a transaction: the product and SKU collections.       *)
(* products maps the ids of stored products to documents, skus maps the    *)
(* ids of stored SKUs to documents.                                        *)
(***************************************************************************)
Store(p, s) == [products |-> p, skus |-> s]

Result(db, err) == [db |-> db, err |-> err]

\* session.withTransaction: commit when the callback returns, abort and
\* rethrow when it throws
WithTransactionNoAbort(db0, r) == r.db

WithTransaction(db0, r) == IF r.err = NoErr THEN r.db ELSE db0

\* product.userId.equals(userId)
IsOwnerAlways(product, userId) == TRUE

IsOwner(product, userId) == product.userId = userId

\* restriction of a function to a sub-domain
Restrict(f, S) == [x \in S |-> f[x]]

\* the ids of the stored SKUs whose productId is pid
SkuIdsOf(skuStore, pid) == {i \in DOMAIN skuStore : skuStore[i].productId = pid}

\* skuModel.deleteMany({ productId })
DeleteManyNone(skuStore, pid) == skuStore

DeleteMany(skuStore, pid) ==
  Restrict(skuStore, (DOMAIN skuStore) \ SkuIdsOf(skuStore, pid))

(***************************************************************************)
(* Product schema: trim setters, defaults, required title.                 *)
(***************************************************************************)
TrimmedPaths == {"title", "description", "fileUrl"}

ApplySetters(obj) ==
  [k \in DOMAIN obj |-> IF k \in TrimmedPaths THEN Trim(obj[k]) ELSE obj[k]]

SchemaDefaultsOneSku == [variants |-> <<>>, skus |-> <<1>>]

SchemaDefaults == [variants |-> <<>>, skus |-> <<>>]

\* new this.productModel({ ...dto, userId, purchasable: false })
NewProduct(dto, userId) ==
  Spread(SchemaDefaults,
         Spread(ApplySetters(dto), [userId |-> userId, purchasable |-> FALSE]))

\* Object.assign(product, dto)
AssignProduct(product, dto) == Spread(product, ApplySetters(dto))

\* document validation run by save(): title is required
SchemaError(doc) ==
  IF Falsy(doc, "title")
  THEN StoreError("Product validation failed: title is required")
  ELSE NoErr

(***************************************************************************)
(* Product Validation Engine.                                              *)
(***************************************************************************)
ValidatePhysicalProduct(product) ==
  IF Falsy(product, "shippingModel")
  THEN BadRequest("Physical products require shipping model")
  ELSE NoErr

ValidateDigitalProduct(product) ==
  IF Falsy(product, "fileUrl")
  THEN BadRequest("Digital products require file URL")
  ELSE NoErr

ValidatePublishedProductNoDescription(product) ==
  IF Falsy(product, "title") \/ Falsy(product, "collectionId")
  THEN BadRequest("Published products require title, description, and collection")
  ELSE IF product.type = "physical" THEN ValidatePhysicalProduct(product)
  ELSE IF product.type = "digital" THEN ValidateDigitalProduct(product)
  ELSE NoErr

ValidatePublishedProduct(product) ==
  IF Falsy(product, "title") \/ Falsy(product, "description")
     \/ Falsy(product, "collectionId")
  THEN BadRequest("Published products require title, description, and collection")
  ELSE IF product.type = "physical" THEN ValidatePhysicalProduct(product)
  ELSE IF product.type = "digital" THEN ValidateDigitalProduct(product)
  ELSE NoErr

ValidateProduct(product) ==
  IF product.status = "draft"
  THEN IF Falsy(product, "title") \/ Falsy(product, "type") \/ Falsy(product, "status")
       THEN BadRequest("Draft products require title, type, and status")
       ELSE NoErr
  ELSE IF product.status = "published" THEN ValidatePublishedProduct(product)
  ELSE NoErr

\* validateCollectionExists; the lookup is store call number step
ValidateCollectionExistsAnyActivity(colls, collectionId, failAt, step) ==
  IF ~IsValidObjectId(collectionId)
  THEN BadRequest("Invalid collection ID format")
  ELSE IF failAt = step THEN StoreError("collectionModel.findById")
  ELSE IF collectionId \notin DOMAIN colls THEN NotFound("Collection not found")
  ELSE NoErr

ValidateCollectionExists(colls, collectionId, failAt, step) ==
  IF ~IsValidObjectId(collectionId)
  THEN BadRequest("Invalid collection ID format")
  ELSE IF failAt = step THEN StoreError("collectionModel.findById")
  ELSE IF collectionId \notin DOMAIN colls THEN NotFound("Collection not found")
  ELSE IF ~colls[collectionId].isActive THEN BadRequest("Collection is not active")
  ELSE NoErr

(***************************************************************************)
(* generateSkus.  The result carries the store after insertMany, the ids   *)
(* of the inserted documents in order, and the error thrown (if any).      *)
(***************************************************************************)
ToSet(seq) == {seq[i] : i \in 1..Len(seq)}

\* ObjectIds are opaque and a new one differs from every id the store holds
\* or references: SKU ids are numbers and the k-th new id is the k-th number
\* that is neither a stored SKU nor listed in any product's skus
UsedSkuIds(db) ==
  (DOMAIN db.skus)
    \cup UNION {ToSet(db.products[p].skus) : p \in DOMAIN db.products}

RECURSIVE NewObjectIds(_, _, _)
NewObjectIds(used, n, from) ==
  IF n = 0 THEN <<>>
  ELSE IF from \in used THEN NewObjectIds(used, n, from + 1)
  ELSE <<from>> \o NewObjectIds(used, n - 1, from + 1)

SkuDocumentStocked(productId, combination) ==
  [productId |-> productId, variantCombination |-> combination,
   price |-> 0, quantity |-> 1]

SkuDocument(productId, combination) ==
  [productId |-> productId, variantCombination |-> combination,
   price |-> 0, quantity |-> 0]

GenerateSkusUnchecked(db, used, productId, variants, failAt, step) ==
  IF Len(variants) = 0
  THEN [db |-> db, err |-> NoErr, ids |-> <<>>]
  ELSE
    LET combinations == GenerateVariantCombinations(variants)
        n == Len(combinations)
        ids == NewObjectIds(used, n, 1)
        inserted ==
          [i \in (DOMAIN db.skus) \cup ToSet(ids) |->
             IF i \in DOMAIN db.skus THEN db.skus[i]
             ELSE SkuDocument(productId,
                              combinations[CHOOSE k \in 1..n : ids[k] = i])]
    IN IF failAt = step
       THEN [db |-> db, err |-> StoreError("skuModel.insertMany"), ids |-> <<>>]
       ELSE [db |-> [db EXCEPT !.skus = inserted],
             err |-> NoErr, ids |-> ids]

GenerateSkus(db, used, productId, variants, failAt, step) ==
  IF Len(variants) = 0
  THEN [db |-> db, err |-> NoErr, ids |-> <<>>]
  ELSE
    LET combinations == GenerateVariantCombinations(variants)
        uniqueCombinations ==
          {StringifyCombination(combinations[i]) : i \in 1..Len(combinations)}
        n == Len(combinations)
        ids == NewObjectIds(used, n, 1)
        inserted ==
          [i \in (DOMAIN db.skus) \cup ToSet(ids) |->
             IF i \in DOMAIN db.skus THEN db.skus[i]
             ELSE SkuDocument(productId,
                              combinations[CHOOSE k \in 1..n : ids[k] = i])]
    IN IF Cardinality(uniqueCombinations) # n
       THEN [db |-> db, err |-> Conflict("Duplicate variant combinations found"),
             ids |-> <<>>]
       ELSE IF failAt = step
       THEN [db |-> db, err |-> StoreError("skuModel.insertMany"), ids |-> <<>>]
       ELSE [db |-> [db EXCEPT !.skus = inserted],
             err |-> NoErr, ids |-> ids]

\* the documents of the given ids, as insertMany returns them
Documents(skuStore, ids) ==
  [i \in 1..Len(ids) |-> Spread([_id |-> ids[i]], skuStore[ids[i]])]

\* a list of ObjectIds that has not been populated
BareRefs(ids) == [i \in 1..Len(ids) |-> [_id |-> ids[i]]]

\* truthiness of an optional string field of a DTO
Truthy(obj, k) == ~Falsy(obj, k)

HasNonEmptyVariants(dto) == Has(dto, "variants") /\ Len(dto.variants) > 0

(***************************************************************************)
(* ProductsService.create: the callback given to withTransaction.  Store   *)
(* calls are numbered in program order; call number failAt throws.         *)
(*   1 collection lookup, 2 product.save, 3 insertMany, 4 savedProduct.save*)
(*   5 findById of the final product, 6 commit                             *)
(***************************************************************************)
CreateFailPoints == 0..6

CreateBody(db, colls, id, dto, userId, failAt) ==
  LET verr == ValidateProduct(dto)
      cerr == IF Truthy(dto, "collectionId")
              THEN ValidateCollectionExists(colls, dto.collectionId, failAt, 1)
              ELSE NoErr
      product == NewProduct(dto, userId)
      db1 == [db EXCEPT !.products =
                [q \in (DOMAIN db.products) \cup {id} |->
                   IF q = id THEN product ELSE db.products[q]]]
      gen == GenerateSkus(db1, UsedSkuIds(db), id, dto.variants, failAt, 3)
      withSkus == [product EXCEPT !.skus = gen.ids]
      saved == [withSkus EXCEPT !.purchasable =
                  CalculatePurchasable(withSkus,
                                       Some(Documents(gen.db.skus, gen.ids)))]
      db2 == [gen.db EXCEPT !.products[id] = saved]
      db3 == IF HasNonEmptyVariants(dto) THEN db2 ELSE db1
  IN IF verr # NoErr THEN Result(db, verr)
     ELSE IF cerr # NoErr THEN Result(db, cerr)
     ELSE IF SchemaError(product) # NoErr THEN Result(db, SchemaError(product))
     ELSE IF failAt = 2 THEN Result(db, StoreError("product.save"))
     ELSE IF HasNonEmptyVariants(dto) /\ gen.err # NoErr THEN Result(db1, gen.err)
     ELSE IF HasNonEmptyVariants(dto) /\ failAt = 4
          THEN Result(gen.db, StoreError("savedProduct.save"))
     ELSE IF db3.products[id].status = "published" /\ failAt = 5
          THEN Result(db3, StoreError("productModel.findById"))
     ELSE IF db3.products[id].status = "published"
             /\ Len(db3.products[id].skus) = 0
          THEN Result(db3, BadRequest("Published products must have at least one SKU"))
     ELSE IF failAt = 6 THEN Result(db3, StoreError("commitTransaction"))
     ELSE Result(db3, NoErr)

(***************************************************************************)
(* ProductsService.update: the callback given to withTransaction.          *)
(*   1 findById, 2 collection lookup, 3 deleteMany, 4 insertMany,          *)
(*   5 product.save, 6 commit                                              *)
(***************************************************************************)
UpdateFailPoints == 0..6

DtoVariants(dto) == IF Has(dto, "variants") THEN Some(dto.variants) ELSE None

UpdateBodyValidatesFirst(db, colls, id, dto, userId, failAt) ==
  LET product == db.products[id]
      verr == ValidateProduct(Spread(product, dto))
      cerr == IF Truthy(dto, "collectionId")
              THEN ValidateCollectionExists(colls, dto.collectionId, failAt, 2)
              ELSE NoErr
      variantsChanged == HasVariantsChanged(Some(product.variants), DtoVariants(dto))
      db1 == [db EXCEPT !.skus = DeleteMany(db.skus, id)]
      regenerate == HasNonEmptyVariants(dto)
      gen == GenerateSkus(db1, UsedSkuIds(db), id, dto.variants, failAt, 4)
      db2 == IF ~variantsChanged THEN db
             ELSE IF regenerate THEN gen.db ELSE db1
      dto2 == IF ~variantsChanged THEN dto
              ELSE IF regenerate THEN Spread(dto, [skus |-> gen.ids])
              ELSE Spread(dto, [skus |-> <<>>])
      assigned == AssignProduct(product, dto2)
      updated == [assigned EXCEPT !.purchasable =
                    CalculatePurchasable(assigned, Some(BareRefs(assigned.skus)))]
      db3 == [db2 EXCEPT !.products[id] = updated]
  IN IF failAt = 1 THEN Result(db, StoreError("productModel.findById"))
     ELSE IF id \notin DOMAIN db.products THEN Result(db, NotFound("Product not found"))
     ELSE IF verr # NoErr THEN Result(db, verr)
     ELSE IF cerr # NoErr THEN Result(db, cerr)
     ELSE IF ~IsOwner(product, userId)
          THEN Result(db, BadRequest("You can only update your own products"))
     ELSE IF variantsChanged /\ failAt = 3
          THEN Result(db, StoreError("skuModel.deleteMany"))
     ELSE IF variantsChanged /\ regenerate /\ gen.err # NoErr
          THEN Result(db1, gen.err)
     ELSE IF SchemaError(updated) # NoErr THEN Result(db2, SchemaError(updated))
     ELSE IF failAt = 5 THEN Result(db2, StoreError("product.save"))
     ELSE IF failAt = 6 THEN Result(db3, StoreError("commitTransaction"))
     ELSE Result(db3, NoErr)

UpdateBody(db, colls, id, dto, userId, failAt) ==
  LET product == db.products[id]
      verr == ValidateProduct(Spread(product, dto))
      cerr == IF Truthy(dto, "collectionId")
              THEN ValidateCollectionExists(colls, dto.collectionId, failAt, 2)
              ELSE NoErr
      variantsChanged == HasVariantsChanged(Some(product.variants), DtoVariants(dto))
      db1 == [db EXCEPT !.skus = DeleteMany(db.skus, id)]
      regenerate == HasNonEmptyVariants(dto)
      gen == GenerateSkus(db1, UsedSkuIds(db), id, dto.variants, failAt, 4)
      db2 == IF ~variantsChanged THEN db
             ELSE IF regenerate THEN gen.db ELSE db1
      dto2 == IF ~variantsChanged THEN dto
              ELSE IF regenerate THEN Spread(dto, [skus |-> gen.ids])
              ELSE Spread(dto, [skus |-> <<>>])
      assigned == AssignProduct(product, dto2)
      updated == [assigned EXCEPT !.purchasable =
                    CalculatePurchasable(assigned, Some(BareRefs(assigned.skus)))]
      db3 == [db2 EXCEPT !.products[id] = updated]
  IN IF failAt = 1 THEN Result(db, StoreError("productModel.findById"))
     ELSE IF id \notin DOMAIN db.products THEN Result(db, NotFound("Product not found"))
     ELSE IF ~IsOwner(product, userId)
          THEN Result(db, BadRequest("You can only update your own products"))
     ELSE IF verr # NoErr THEN Result(db, verr)
     ELSE IF cerr # NoErr THEN Result(db, cerr)
     ELSE IF variantsChanged /\ failAt = 3
          THEN Result(db, StoreError("skuModel.deleteMany"))
     ELSE IF variantsChanged /\ regenerate /\ gen.err # NoErr
          THEN Result(db1, gen.err)
     ELSE IF SchemaError(updated) # NoErr THEN Result(db2, SchemaError(updated))
     ELSE IF failAt = 5 THEN Result(db2, StoreError("product.save"))
     ELSE IF failAt = 6 THEN Result(db3, StoreError("commitTransaction"))
     ELSE Result(db3, NoErr)

(***************************************************************************)
(* ProductsService.remove: the callback given to withTransaction.          *)
(*   1 findById, 2 deleteMany, 3 findByIdAndDelete, 4 commit               *)
(***************************************************************************)
RemoveFailPoints == 0..4

RemoveBody(db, id, userId, failAt) ==
  LET db1 == [db EXCEPT !.skus = DeleteMany(db.skus, id)]
      db2 == [db1 EXCEPT !.products = Restrict(db1.products, (DOMAIN db1.products) \ {id})]
  IN IF failAt = 1 THEN Result(db, StoreError("productModel.findById"))
     ELSE IF id \notin DOMAIN db.products THEN Result(db, NotFound("Product not found"))
     ELSE IF ~IsOwner(db.products[id], userId)
          THEN Result(db, BadRequest("You can only delete your own products"))
     ELSE IF failAt = 2 THEN Result(db, StoreError("skuModel.deleteMany"))
     ELSE IF failAt = 3 THEN Result(db1, StoreError("productModel.findByIdAndDelete"))
     ELSE IF failAt = 4 THEN Result(db2, StoreError("commitTransaction"))
     ELSE Result(db2, NoErr)

(***************************************************************************)
(* ProductsService.updateSkus: the callback given to withTransaction.      *)
(*   1 findById().populate('skus'), 1 + i the write of patch i,            *)
(*   n + 2 the refresh, n + 3 commit (n patches)                           *)
(***************************************************************************)
UpdateSkusFailPoints == 0..(MaxPatches + 3)

RECURSIVE PresentIds(_, _)
\* populate('skus'): references that resolve to no document are dropped
PresentIds(skuStore, ids) ==
  IF ids = <<>> THEN <<>>
  ELSE IF Head(ids) \in DOMAIN skuStore
       THEN <<Head(ids)>> \o PresentIds(skuStore, Tail(ids))
       ELSE PresentIds(skuStore, Tail(ids))

\* currentSkuMap.get(variantKey): the last populated SKU stored under the key
\* (0 when there is none)
LookupSkuFirst(skuStore, currentIds, variantKey) ==
  IF currentIds = <<>> THEN 0 ELSE currentIds[1]

LookupSku(skuStore, currentIds, variantKey) ==
  LET hits == {i \in 1..Len(currentIds) :
                 StringifyCombination(skuStore[currentIds[i]].variantCombination)
                   = variantKey}
  IN IF hits = {} THEN 0
     ELSE currentIds[CHOOSE i \in hits : \A j \in hits : j <= i]

\* the updateData of one patch applied to one SKU document
ApplyPatchSwapped(sku, skuUpdate) ==
  [sku EXCEPT
     !.price = IF Has(skuUpdate, "quantity") THEN skuUpdate.quantity ELSE @,
     !.quantity = IF Has(skuUpdate, "price") THEN skuUpdate.price ELSE @]

ApplyPatch(sku, skuUpdate) ==
  [sku EXCEPT
     !.price = IF Has(skuUpdate, "price") THEN skuUpdate.price ELSE @,
     !.quantity = IF Has(skuUpdate, "quantity") THEN skuUpdate.quantity ELSE @]

RECURSIVE ProcessSkuUpdates(_, _, _, _, _, _)
\* the for loop over updateSkusDto.skus, from patch number i on; currentIds
\* and snapshot are the SKUs populated before the loop
ProcessSkuUpdates(db, snapshot, currentIds, patches, i, failAt) ==
  IF i > Len(patches) THEN Result(db, NoErr)
  ELSE
    LET skuUpdate == patches[i]
        variantKey == StringifyCombination(skuUpdate.variantCombination)
        existingSku == LookupSku(snapshot, currentIds, variantKey)
        hasData == Has(skuUpdate, "price") \/ Has(skuUpdate, "quantity")
        db1 == [db EXCEPT !.skus[existingSku] = ApplyPatch(@, skuUpdate)]
    IN IF existingSku = 0
       THEN Result(db, [BadRequest("SKU with variant combination not found in product")
                          EXCEPT !.detail = variantKey])
       ELSE IF hasData /\ failAt = 1 + i
       THEN Result(db, StoreError("skuModel.findByIdAndUpdate"))
       ELSE ProcessSkuUpdates(IF hasData THEN db1 ELSE db,
                              snapshot, currentIds, patches, i + 1, failAt)

UpdateSkusBodyNoSkuCheck(db, productId, patches, userId, failAt) ==
  LET product == db.products[productId]
      currentIds == PresentIds(db.skus, product.skus)
      loop == ProcessSkuUpdates(db, db.skus, currentIds, patches, 1, failAt)
  IN IF ~IsValidObjectId(productId) THEN Result(db, BadRequest("Invalid product ID"))
     ELSE IF failAt = 1 THEN Result(db, StoreError("productModel.findById"))
     ELSE IF productId \notin DOMAIN db.products
          THEN Result(db, NotFound("Product not found"))
     ELSE IF ~IsOwner(product, userId)
          THEN Result(db, BadRequest("You can only update your own products"))
     ELSE IF loop.err # NoErr THEN loop
     ELSE IF failAt = Len(patches) + 2
          THEN Result(loop.db, StoreError("productModel.findById"))
     ELSE IF failAt = Len(patches) + 3
          THEN Result(loop.db, StoreError("commitTransaction"))
     ELSE loop

UpdateSkusBody(db, productId, patches, userId, failAt) ==
  LET product == db.products[productId]
      currentIds == PresentIds(db.skus, product.skus)
      loop == ProcessSkuUpdates(db, db.skus, currentIds, patches, 1, failAt)
  IN IF ~IsValidObjectId(productId) THEN Result(db, BadRequest("Invalid product ID"))
     ELSE IF failAt = 1 THEN Result(db, StoreError("productModel.findById"))
     ELSE IF productId \notin DOMAIN db.products
          THEN Result(db, NotFound("Product not found"))
     ELSE IF ~IsOwner(product, userId)
          THEN Result(db, BadRequest("You can only update your own products"))
     ELSE IF Len(currentIds) = 0
          THEN Result(db, BadRequest("Product has no SKUs to update"))
     ELSE IF loop.err # NoErr THEN loop
     ELSE IF failAt = Len(patches) + 2
          THEN Result(loop.db, StoreError("productModel.findById"))
     ELSE IF failAt = Len(patches) + 3
          THEN Result(loop.db, StoreError("commitTransaction"))
     ELSE loop

(***************************************************************************)
(* The operations as steps of the state machine.  Requests are served one  *)
(* at a time: lastOp holds the call whose result is being returned to the  *)
(* caller (the operation, the product id and caller, whether a store       *)
(* failure was injected, whether the DTO had a variants key, and the error *)
(* raised, NoErr when the call succeeded) and is NoCall between requests.  *)
(***************************************************************************)
CurrentDb == Store(products, skus)

NoCall ==
  [op |-> "none", id |-> "none", userId |-> "none", injected |-> FALSE,
   hasVariants |-> FALSE, err |-> [cls |-> "none", msg |-> "", detail |-> <<>>]]

Call(op, id, userId, failAt, hasVariants, err) ==
  [op |-> op, id |-> id, userId |-> userId, injected |-> (failAt # 0),
   hasVariants |-> hasVariants, err |-> err]

Commit(db, call) ==
  /\ lastOp = NoCall
  /\ products' = db.products
  /\ skus' = db.skus
  /\ lastOp' = call
  /\ UNCHANGED <<collections, sessions>>

\* the product is given a new ObjectId by the model constructor
Create(id, dto, userId, failAt) ==
  /\ id \notin DOMAIN products
  /\ LET r == CreateBody(CurrentDb, collections, id, dto, userId, failAt)
     IN Commit(WithTransaction(CurrentDb, r),
               Call("create", id, userId, failAt, Has(dto, "variants"), r.err))

Update(id, dto, userId, failAt) ==
  IF ~IsValidObjectId(id)
  THEN Commit(CurrentDb, Call("update", id, userId, failAt, Has(dto, "variants"),
                              BadRequest("Invalid product ID")))
  ELSE LET r == UpdateBody(CurrentDb, collections, id, dto, userId, failAt)
       IN Commit(WithTransaction(CurrentDb, r),
                 Call("update", id, userId, failAt, Has(dto, "variants"), r.err))

Remove(id, userId, failAt) ==
  IF ~IsValidObjectId(id)
  THEN Commit(CurrentDb, Call("remove", id, userId, failAt, FALSE,
                              BadRequest("Invalid product ID")))
  ELSE LET r == RemoveBody(CurrentDb, id, userId, failAt)
       IN Commit(WithTransaction(CurrentDb, r),
                 Call("remove", id, userId, failAt, FALSE, r.err))

UpdateSkus(productId, patches, userId, failAt) ==
  LET r == UpdateSkusBody(CurrentDb, productId, patches, userId, failAt)
  IN Commit(WithTransaction(CurrentDb, r),
            Call("updateSkus", productId, userId, failAt, FALSE, r.err))

\* findOne reads the store outside any transaction and has no caller identity
FindOne(id) ==
  Commit(CurrentDb,
         Call("findOne", id, "none", 0, FALSE,
              IF ~IsValidObjectId(id) THEN BadRequest("Invalid product ID")
              ELSE IF id \notin DOMAIN products THEN NotFound("Product not found")
              ELSE NoErr))

(***************************************************************************)
(* Inputs.                                                                 *)
(***************************************************************************)
Axis(n, vs) == [name |-> n, values |-> vs]

VColor == <<Axis("color", <<"red", "blue">>)>>
VColorRev == <<Axis("color", <<"blue", "red">>)>>
VColorSize == <<Axis("color", <<"red">>), Axis("size", <<"S">>)>>
VSizeColor == <<Axis("size", <<"S">>), Axis("color", <<"red">>)>>
VDupValue == <<Axis("color", <<"red", "red">>)>>
VDupAxis == <<Axis("color", <<"red">>), Axis("color", <<"blue">>)>>
VDupAxisRev == <<Axis("color", <<"blue">>), Axis("color", <<"red">>)>>

VariantInputs ==
  {<<>>, VColor, VColorRev, VColorSize, VSizeColor, VDupValue, VDupAxis, VDupAxisRev}

RECURSIVE ObjectsUpTo(_, _)
\* the objects built from at least one and at most k of the given single-key
\* objects, no key twice
ObjectsUpTo(singles, k) ==
  IF k <= 1 THEN singles
  ELSE LET prev == ObjectsUpTo(singles, k - 1)
       IN prev \cup {Spread(pair[1], pair[2]) :
                       pair \in {q \in prev \X singles :
                                   (DOMAIN q[1]) \cap (DOMAIN q[2]) = {}}}

\* create DTOs: a minimal draft and a complete published product, with or
\* without variants
DraftDto == [title |-> "T", type |-> "physical", status |-> "draft"]

PublishedDto ==
  [title |-> "T", description |-> "D", type |-> "physical",
   status |-> "published", collectionId |-> "c1", shippingModel |-> "SM"]

CreateDtos ==
  {DraftDto, PublishedDto}
    \cup {Spread(b, [variants |-> v]) : b \in {DraftDto, PublishedDto},
                                         v \in VariantInputs}

\* update DTOs: at most MaxPatchKeys of title, status and variants
PatchSingles ==
  {[title |-> "T"], [status |-> "draft"], [status |-> "published"]}
    \cup {[variants |-> v] : v \in VariantInputs}

EmptyObject == <<>>

Patches == {EmptyObject} \cup ObjectsUpTo(PatchSingles, MaxPatchKeys)

\* updateSkus patches: the variantCombination of a stored SKU, the same with
\* its keys listed in the opposite order, or one that names no SKU
RECURSIVE Reverse(_)
Reverse(seq) ==
  IF seq = <<>> THEN <<>> ELSE Reverse(Tail(seq)) \o <<Head(seq)>>

PatchCombinations ==
  {skus[i].variantCombination : i \in DOMAIN skus}
    \cup {Reverse(skus[i].variantCombination) : i \in DOMAIN skus}
    \cup {<< <<"color", "green">> >>}

SkuPatchFields ==
  ObjectsUpTo({[price |-> x] : x \in 1..MaxPrice}
                \cup {[quantity |-> x] : x \in 0..MaxQty}, 2)

SkuPatches ==
  {Spread([variantCombination |-> c], f) : c \in PatchCombinations,
                                           f \in SkuPatchFields}
    \cup {[variantCombination |-> c] : c \in PatchCombinations}

RECURSIVE ListsUpTo(_, _)
\* the non-empty lists of at most k elements of S
ListsUpTo(S, k) ==
  IF k <= 1 THEN {<<x>> : x \in S}
  ELSE LET prev == ListsUpTo(S, k - 1)
       IN prev \cup {Append(l, x) : l \in prev, x \in S}

\* the patches that follow the first patch of a request set one field to its
\* largest value
FollowingSkuPatches ==
  {[variantCombination |-> c, quantity |-> MaxQty] : c \in PatchCombinations}
    \cup {[variantCombination |-> c, price |-> MaxPrice] : c \in PatchCombinations}

RECURSIVE PatchLists(_, _, _)
\* the lists of at most k patches: one of first, then some of following
PatchLists(first, following, k) ==
  IF k <= 1 THEN {<<x>> : x \in first}
  ELSE LET prev == PatchLists(first, following, k - 1)
       IN prev \cup {Append(l, x) : l \in prev, x \in following}

SkuPatchLists == {<<>>} \cup PatchLists(SkuPatches, FollowingSkuPatches, MaxPatches)

(***************************************************************************)
(* The state machine: every operation with every input, no store failure.  *)
(***************************************************************************)
Init ==
  /\ products = <<>>
  /\ skus = <<>>
  /\ collections = [c \in CollectionIds |-> [isActive |-> TRUE]]
  /\ lastOp = NoCall
  /\ sessions = <<>>

CreateStep ==
  \E id \in ProductIds, dto \in CreateDtos, userId \in Creators :
    Create(id, dto, userId, 0)

UpdateStep ==
  \/ \E id \in ProductIds, userId \in Users, dto \in Patches :
       Update(id, dto, userId, 0)
  \/ \E userId \in Users : Update(MalformedId, [title |-> "T"], userId, 0)

RemoveStep ==
  \E id \in ProductIds \cup {MalformedId}, userId \in Users :
    Remove(id, userId, 0)

UpdateSkusStep ==
  \/ /\ lastOp = NoCall
     /\ \E productId \in ProductIds, userId \in Creators, patches \in SkuPatchLists :
          UpdateSkus(productId, patches, userId, 0)
  \/ /\ lastOp = NoCall
     /\ \E productId \in ProductIds, userId \in Users \ Creators,
           patches \in {l \in SkuPatchLists : Len(l) <= 1} :
          UpdateSkus(productId, patches, userId, 0)
  \/ \E userId \in Users : UpdateSkus(MalformedId, <<>>, userId, 0)

FindOneStep == \E id \in ProductIds \cup {MalformedId} : FindOne(id)

\* the result reaches the caller; the next request can be served
Respond ==
  /\ lastOp # NoCall
  /\ lastOp' = NoCall
  /\ UNCHANGED <<products, skus, collections, sessions>>

Next ==
  \/ CreateStep \/ UpdateStep \/ RemoveStep \/ UpdateSkusStep \/ FindOneStep
  \/ Respond

Spec == Init /\ [][Next]_vars

(***************************************************************************)
(* The same operations with a store failure injected at any store call of  *)
(* the transaction (failAt = 0: none), on single-key DTOs and patch lists  *)
(* of the products the first specification stores.                         *)
(***************************************************************************)
FaultCreateDtos ==
  {DraftDto, PublishedDto, Spread(PublishedDto, [variants |-> VColor]),
   Spread(DraftDto, [variants |-> VColorSize]),
   Spread(PublishedDto, [variants |-> VDupValue])}

FaultPatches ==
  {[title |-> "T"], [status |-> "draft"], [status |-> "published"],
   [variants |-> VColor], [variants |-> VColorRev], [variants |-> VColorSize],
   [variants |-> VDupValue], [variants |-> <<>>]}

\* patch lists that set quantities, of the stored combinations and an unknown one
FaultSkuPatchLists ==
  ListsUpTo({[variantCombination |-> c, quantity |-> MaxQty] :
               c \in PatchCombinations}, MaxPatches)

CreateFaultStep ==
  \E id \in ProductIds, dto \in FaultCreateDtos, userId \in Creators,
     failAt \in CreateFailPoints :
    Create(id, dto, userId, failAt)

UpdateFaultStep ==
  \E id \in ProductIds, userId \in Users,
     dto \in FaultPatches, failAt \in UpdateFailPoints :
    Update(id, dto, userId, failAt)

RemoveFaultStep ==
  \E id \in ProductIds \cup {MalformedId}, userId \in Users,
     failAt \in RemoveFailPoints :
    Remove(id, userId, failAt)

UpdateSkusFaultStep ==
  /\ lastOp = NoCall
  /\ \E productId \in ProductIds, userId \in Creators,
        patches \in FaultSkuPatchLists, failAt \in UpdateSkusFailPoints :
       UpdateSkus(productId, patches, userId, failAt)

NextFault ==
  \/ CreateFaultStep \/ UpdateFaultStep \/ RemoveFaultStep
  \/ UpdateSkusFaultStep \/ Respond

SpecFault == Init /\ [][NextFault]_vars

(***************************************************************************)
(* The validation rules: create DTOs and update DTOs over every field the  *)
(* Product Validation Engine reads, and a collection that is activated and *)
(* deactivated by CollectionsService.update.                               *)
(***************************************************************************)
Optional(k, values) == {EmptyObject} \cup {[x \in {k} |-> v] : v \in values}

ValCreateDtos ==
  {Spread(Spread(Spread(Spread(Spread(Spread(b, d), c), sm), f), v), EmptyObject) :
     b \in {[title |-> t, type |-> ty, status |-> st] :
              t \in {"T", ""}, ty \in {"physical", "digital"},
              st \in {"draft", "published"}},
     d \in Optional("description", {" ", "D"}),
     c \in Optional("collectionId", {"c1", MissingCollectionId}),
     sm \in Optional("shippingModel", {"SM"}),
     f \in Optional("fileUrl", {"F"}),
     v \in Optional("variants", {VColor})}

ValPatchSingles ==
  {[title |-> "T"], [title |-> " "], [description |-> "D"], [description |-> " "],
   [type |-> "physical"], [type |-> "digital"],
   [status |-> "draft"], [status |-> "published"],
   [collectionId |-> "c1"], [collectionId |-> MissingCollectionId],
   [shippingModel |-> "SM"], [fileUrl |-> "F"],
   [variants |-> VColor], [variants |-> <<>>]}

ValPatches == {EmptyObject} \cup ObjectsUpTo(ValPatchSingles, MaxPatchKeys)

ValSkuPatchLists ==
  {<< [variantCombination |-> c, quantity |-> MaxQty] >> : c \in PatchCombinations}

CreateValStep ==
  \E id \in ProductIds, dto \in ValCreateDtos, userId \in Creators :
    Create(id, dto, userId, 0)

UpdateValStep ==
  \E id \in ProductIds, userId \in Creators, dto \in ValPatches :
    Update(id, dto, userId, 0)

UpdateSkusValStep ==
  \E productId \in ProductIds, userId \in Creators, patches \in ValSkuPatchLists :
    UpdateSkus(productId, patches, userId, 0)

\* CollectionsService.update with { isActive }
CollectionUpdate(c, isActive) ==
  /\ lastOp = NoCall
  /\ c \in DOMAIN collections
  /\ collections' = [collections EXCEPT ![c].isActive = isActive]
  /\ UNCHANGED <<products, skus, lastOp, sessions>>

CollectionUpdateStep ==
  \E c \in CollectionIds, isActive \in BOOLEAN :
    /\ collections[c].isActive # isActive
    /\ CollectionUpdate(c, isActive)

NextVal ==
  \/ CreateValStep \/ UpdateValStep \/ RemoveStep \/ UpdateSkusValStep
  \/ CollectionUpdateStep \/ Respond

SpecVal == Init /\ [][NextVal]_vars

(***************************************************************************)
(* Notions the properties are stated with.                                 *)
(***************************************************************************)
\* the mapping a variantCombination denotes, whatever the order of its keys
AsMapping(c) ==
  [k \in {c[i][1] : i \in 1..Len(c)} |->
     c[CHOOSE i \in 1..Len(c) : c[i][1] = k][2]]

\* the cartesian product of a list of axes: every mapping that gives each
\* axis name one of the values of that axis
CartesianProduct(variants) ==
  LET names == {variants[i].name : i \in 1..Len(variants)}
      values == UNION {ToSet(variants[i].values) : i \in 1..Len(variants)}
  IN {f \in [names -> values] :
        \A i \in 1..Len(variants) : f[variants[i].name] \in ToSet(variants[i].values)}

\* y lists the elements of x in some order
IsPermutationOf(x, y) ==
  /\ Len(x) = Len(y)
  /\ \E pi \in Permutations(1..Len(x)) : \A i \in 1..Len(x) : x[i] = y[pi[i]]

\* b lists the axes of a in some order, each with its values in some order
IsReordering(a, b) ==
  /\ Len(a) = Len(b)
  /\ \E pi \in Permutations(1..Len(a)) :
       \A i \in 1..Len(a) :
         /\ a[i].name = b[pi[i]].name
         /\ IsPermutationOf(a[i].values, b[pi[i]].values)

\* the step is a successful update of the product lastOp'.id
UpdateSucceeds ==
  /\ lastOp = NoCall
  /\ lastOp'.op = "update"
  /\ lastOp'.err = NoErr

OwnershipError(op) ==
  BadRequest(IF op = "remove" THEN "You can only delete your own products"
             ELSE "You can only update your own products")

(***************************************************************************)
(* C1: in every reachable state each stored product's purchasable flag is  *)
(* true if and only if the product is published and at least one SKU it    *)
(* references has quantity > 0.                                            *)
(***************************************************************************)
C1Claim ==
  \A p \in DOMAIN products :
    products[p].purchasable
      <=> /\ products[p].status = "published"
          /\ \E k \in 1..Len(products[p].skus) :
               /\ products[p].skus[k] \in DOMAIN skus
               /\ skus[products[p].skus[k]].quantity > 0

(***************************************************************************)
(* C2: in every reachable state the variantCombinations of the SKUs owned  *)
(* by a product are exactly the cartesian product of the product's stored  *)
(* variants, no combination twice and none missing.                        *)
(***************************************************************************)
C2Claim ==
  \A p \in DOMAIN products :
    LET owned == SkuIdsOf(skus, p)
    IN /\ {AsMapping(skus[i].variantCombination) : i \in owned}
            = CartesianProduct(products[p].variants)
       /\ \A i, j \in owned :
            i # j => AsMapping(skus[i].variantCombination)
                       # AsMapping(skus[j].variantCombination)

(***************************************************************************)
(* C3: in every reachable state every stored published product references *)
(* at least one SKU.                                                       *)
(***************************************************************************)
C3Claim ==
  \A p \in DOMAIN products :
    products[p].status = "published" => Len(products[p].skus) >= 1

C5Theorem ==
  [][(lastOp = NoCall /\ lastOp'.op = "remove")
       => /\ lastOp'.err = NoErr
               => /\ lastOp'.id \in DOMAIN products
                  /\ products[lastOp'.id].userId = lastOp'.userId
                  /\ lastOp'.id \notin DOMAIN products'
                  /\ SkuIdsOf(skus', lastOp'.id) = {}
          /\ lastOp'.err = StoreError("skuModel.deleteMany")
               => /\ lastOp'.id \in DOMAIN products'
                  /\ products' = products
                  /\ skus' = skus]_vars

\* the SKU deletion of a remove failed: the product and its SKUs are stored
C5Witness ==
  /\ lastOp.op = "remove"
  /\ lastOp.err = StoreError("skuModel.deleteMany")
  /\ lastOp.id \in DOMAIN products
  /\ Cardinality(SkuIdsOf(skus, lastOp.id)) >= 2

(***************************************************************************)
(* C6: a successful update by the owner whose variants are a reordering of *)
(* the stored variants (axes and/or values within an axis) leaves the ids  *)
(* of the product's SKUs and every SKU's price and quantity unchanged.     *)
(***************************************************************************)
C6Claim ==
  [][(/\ UpdateSucceeds
      /\ lastOp'.hasVariants
      /\ IsReordering(products[lastOp'.id].variants, products'[lastOp'.id].variants))
       => /\ SkuIdsOf(skus', lastOp'.id) = SkuIdsOf(skus, lastOp'.id)
          /\ \A i \in SkuIdsOf(skus, lastOp'.id) :
               /\ skus'[i].price = skus[i].price
               /\ skus'[i].quantity = skus[i].quantity]_vars

(***************************************************************************)
(* C7: a successful update by the owner whose DTO has no variants key, on  *)
(* a product that has SKUs, deletes and creates no SKU, leaves the         *)
(* product's skus list unchanged and every SKU's fields unchanged.         *)
(***************************************************************************)
C7Claim ==
  [][(/\ UpdateSucceeds
      /\ ~lastOp'.hasVariants
      /\ Len(products[lastOp'.id].skus) > 0)
       => /\ skus' = skus
          /\ products'[lastOp'.id].skus = products[lastOp'.id].skus]_vars

(***************************************************************************)
(* C8: when the variants of a successful update differ from the stored     *)
(* variants (axes sorted by name, values sorted), no previous SKU of the   *)
(* product survives and the product owns one new SKU per combination of    *)
(* the new variants, each with price 0, quantity 0 and no dimensions.      *)
(***************************************************************************)
VariantsDiffer ==
  /\ UpdateSucceeds
  /\ lastOp'.hasVariants
  /\ NormalizeVariants(products[lastOp'.id].variants)
       # NormalizeVariants(products'[lastOp'.id].variants)

\* the product owns exactly one new SKU per given combination, in order
RegeneratedAs(combinations) ==
  LET id == lastOp'.id
      refs == products'[id].skus
  IN /\ SkuIdsOf(skus, id) \cap DOMAIN skus' = {}
     /\ Len(refs) = Len(combinations)
     /\ ToSet(refs) = SkuIdsOf(skus', id)
     /\ Cardinality(ToSet(refs)) = Len(refs)
     /\ \A k \in 1..Len(refs) :
          /\ refs[k] \notin DOMAIN skus
          /\ skus'[refs[k]].variantCombination = combinations[k]
          /\ skus'[refs[k]].price = 0
          /\ skus'[refs[k]].quantity = 0
          /\ ~Has(skus'[refs[k]], "dimensions")

C9Theorem ==
  [][(/\ lastOp = NoCall
      /\ lastOp'.op \in {"update", "remove", "updateSkus"}
      /\ ~lastOp'.injected
      /\ lastOp'.id \in DOMAIN products
      /\ products[lastOp'.id].userId # lastOp'.userId)
       => /\ lastOp'.err = OwnershipError(lastOp'.op)
          /\ products' = products
          /\ skus' = skus]_vars

\* updateSkus by the other user was refused on a product with stock
C9Witness ==
  /\ lastOp.op = "updateSkus"
  /\ lastOp.id \in DOMAIN products
  /\ products[lastOp.id].userId # lastOp.userId
  /\ lastOp.err = OwnershipError("updateSkus")
  /\ \E i \in SkuIdsOf(skus, lastOp.id) : skus[i].quantity > 0

(***************************************************************************)
(* C10: in every reachable state every stored published product has a      *)
(* title, a description and a collectionId, and a shippingModel if it is   *)
(* physical or a fileUrl if it is digital.                                 *)
(***************************************************************************)
C10Claim ==
  \A p \in DOMAIN products :
    products[p].status = "published"
      => /\ Truthy(products[p], "title")
         /\ Truthy(products[p], "description")
         /\ Truthy(products[p], "collectionId")
         /\ products[p].type = "physical" => Truthy(products[p], "shippingModel")
         /\ products[p].type = "digital" => Truthy(products[p], "fileUrl")

(***************************************************************************)
(* C11: whenever create or update commits a product whose resulting status *)
(* is published, the product's collectionId names, at that commit, a       *)
(* stored collection whose isActive is true; an update that only changes   *)
(* the status and keeps the stored collectionId is included.               *)
(***************************************************************************)
C11Claim ==
  [][(/\ lastOp = NoCall
      /\ lastOp'.op \in {"create", "update"}
      /\ lastOp'.err = NoErr
      /\ products'[lastOp'.id].status = "published")
       => /\ Truthy(products'[lastOp'.id], "collectionId")
          /\ products'[lastOp'.id].collectionId \in DOMAIN collections
          /\ collections[products'[lastOp'.id].collectionId].isActive]_vars

(***************************************************************************)
(* SKU updates with the request on record: lastOp also holds the patches   *)
(* of the updateSkus call, on products created with no, one or two axes.   *)
(***************************************************************************)
SkusCreateDtos ==
  {DraftDto, Spread(DraftDto, [variants |-> VColor]),
   Spread(PublishedDto, [variants |-> VColor]),
   Spread(DraftDto, [variants |-> VColorSize])}

UpdateSkusRequest(productId, patches, userId) ==
  LET r == UpdateSkusBody(CurrentDb, productId, patches, userId, 0)
  IN Commit(WithTransaction(CurrentDb, r),
            Spread(Call("updateSkus", productId, userId, 0, FALSE, r.err),
                   [patches |-> patches]))

CreateSkusStep ==
  \E id \in ProductIds, dto \in SkusCreateDtos, userId \in Creators :
    Create(id, dto, userId, 0)

UpdateSkusRequestStep ==
  /\ lastOp = NoCall
  /\ \E productId \in ProductIds, userId \in Creators, patches \in SkuPatchLists :
       UpdateSkusRequest(productId, patches, userId)

NextSkus == CreateSkusStep \/ UpdateSkusRequestStep \/ RemoveStep \/ Respond

SpecSkus == Init /\ [][NextSkus]_vars

\* the step is an updateSkus call by the owner of the stored product
UpdateSkusByOwner ==
  /\ lastOp = NoCall
  /\ lastOp'.op = "updateSkus"
  /\ lastOp'.id \in DOMAIN products
  /\ products[lastOp'.id].userId = lastOp'.userId

\* the SKUs of product pid whose variantCombination is the mapping of patch
MatchedSkus(skuStore, pid, patch) ==
  {i \in SkuIdsOf(skuStore, pid) :
     AsMapping(skuStore[i].variantCombination) = AsMapping(patch.variantCombination)}

\* the error names the combination of a patch of the request that matches no
\* SKU of the product
NamesUnmatched(err, skuStore, pid, patches) ==
  \E k \in 1..Len(patches) :
    /\ MatchedSkus(skuStore, pid, patches[k]) = {}
    /\ err.msg = "SKU with variant combination not found in product"
    /\ err.detail = StringifyCombination(patches[k].variantCombination)

(***************************************************************************)
(* C12: if a patch of an updateSkus request names a variantCombination     *)
(* that matches no SKU of the product, the call fails with an error naming *)
(* that combination and no SKU is changed, the SKUs matched by earlier     *)
(* patches of the request included.                                        *)
(***************************************************************************)
C12Claim ==
  [][(/\ UpdateSkusByOwner
      /\ \E k \in 1..Len(lastOp'.patches) :
           MatchedSkus(skus, lastOp'.id, lastOp'.patches[k]) = {})
       => /\ NamesUnmatched(lastOp'.err, skus, lastOp'.id, lastOp'.patches)
          /\ skus' = skus]_vars

(***************************************************************************)
(* C13: the error updateSkus raises for a variantCombination it does not   *)
(* find is a conflict error, of the class raised for duplicate variant     *)
(* combinations and not of the validation error class.                     *)
(***************************************************************************)
C13Claim ==
  (/\ lastOp.op = "updateSkus"
   /\ lastOp.err.msg = "SKU with variant combination not found in product")
    => /\ lastOp.err.cls = Conflict("Duplicate variant combinations found").cls
       /\ lastOp.err.cls # BadRequest("Product has no SKUs to update").cls

\* the positions of the patches that name SKU i and provide field f
Providing(skuStore, pid, patches, i, f) ==
  {k \in 1..Len(patches) :
     i \in MatchedSkus(skuStore, pid, patches[k]) /\ Has(patches[k], f)}

\* field f of SKU i after the request: the value of the last patch that
\* provides it, the stored value when no patch does
Overwritten(skuStore, pid, patches, i, f) ==
  LET ks == Providing(skuStore, pid, patches, i, f)
  IN IF ks = {} THEN skuStore[i][f]
     ELSE patches[CHOOSE k \in ks : \A j \in ks : j <= k][f]

(***************************************************************************)
(* C14: a successful updateSkus overwrites, on each SKU a patch names,     *)
(* only the fields the patch provides: price stays when only quantity is   *)
(* given, quantity stays when only price is given, a SKU no patch names    *)
(* keeps both, and no SKU is added, removed or otherwise changed.          *)
(***************************************************************************)
C14Theorem ==
  [][(UpdateSkusByOwner /\ lastOp'.err = NoErr)
       => /\ DOMAIN skus' = DOMAIN skus
          /\ products' = products
          /\ \A i \in DOMAIN skus :
               /\ skus'[i].price
                    = Overwritten(skus, lastOp'.id, lastOp'.patches, i, "price")
               /\ skus'[i].quantity
                    = Overwritten(skus, lastOp'.id, lastOp'.patches, i, "quantity")
               /\ skus'[i].variantCombination = skus[i].variantCombination
               /\ skus'[i].productId = skus[i].productId]_vars

\* a patch that gives only a price was applied to a SKU in stock while the
\* other SKU of the product, which no patch names, has a price and stock
C14Witness ==
  /\ lastOp.op = "updateSkus"
  /\ lastOp.err = NoErr
  /\ Has(lastOp, "patches")
  /\ Len(lastOp.patches) = 1
  /\ DOMAIN lastOp.patches[1] = {"variantCombination", "price"}
  /\ \E i \in MatchedSkus(skus, lastOp.id, lastOp.patches[1]) :
       /\ skus[i].price = lastOp.patches[1].price
       /\ skus[i].quantity > 0
       /\ \E j \in SkuIdsOf(skus, lastOp.id) \ {i} :
            skus[j].price > 0 /\ skus[j].quantity > 0

(***************************************************************************)
(* The pure functions of the service on their own: the initial state holds *)
(* a call with its arguments, the step of the function adds the result.    *)
(* Variant lists have at most MaxAxes axes of at most MaxValues values;    *)
(* SKU lists have at most MaxSkus elements.                                *)
(***************************************************************************)
MaxAxes == 2
MaxValues == 2
MaxSkus == 3

AxisNames == {"color", "size"}
AxisValues == {"red", "blue"}

\* the sequences of at most k elements of S
SeqsUpTo(S, k) == UNION {[1..n -> S] : n \in 0..k}

PureAxes == {Axis(n, vs) : n \in AxisNames, vs \in SeqsUpTo(AxisValues, MaxValues)}

PureVariantLists == SeqsUpTo(PureAxes, MaxAxes)

\* the arguments hasVariantsChanged is given together with a
ComparedWith(a) == {None, a} \cup {Some(v) : v \in VariantInputs}

PureSkuLists ==
  {None}
    \cup {Some(l) : l \in SeqsUpTo({[_id |-> 1, quantity |-> q] : q \in 0..MaxQty},
                                   MaxSkus)}
    \cup {Some(BareRefs(l)) : l \in {<<1>>, <<1, 2>>}}

\* the calls of the three functions, on the given variant lists
PureCalls(lists) ==
  {[op |-> "call", fn |-> "generateVariantCombinations", variants |-> v] :
     v \in lists}
    \cup UNION {{[op |-> "call", fn |-> "hasVariantsChanged",
                  oldVariants |-> a, newVariants |-> b] : b \in ComparedWith(a)} :
                a \in {None} \cup {Some(v) : v \in lists}}
    \cup {[op |-> "call", fn |-> "calculatePurchasable",
           product |-> [status |-> st], skus |-> l] :
            st \in {"draft", "published"}, l \in PureSkuLists}

InitPure ==
  /\ products = <<>>
  /\ skus = <<>>
  /\ collections = [c \in CollectionIds |-> [isActive |-> TRUE]]
  /\ lastOp \in PureCalls(PureVariantLists)
  /\ sessions = <<>>

Return(result) ==
  /\ lastOp' = Spread(lastOp, [op |-> "return", result |-> result])
  /\ UNCHANGED <<products, skus, collections, sessions>>

GenerateVariantCombinationsStep ==
  /\ lastOp.op = "call"
  /\ lastOp.fn = "generateVariantCombinations"
  /\ Return(GenerateVariantCombinations(lastOp.variants))

HasVariantsChangedStep ==
  /\ lastOp.op = "call"
  /\ lastOp.fn = "hasVariantsChanged"
  /\ Return(HasVariantsChanged(lastOp.oldVariants, lastOp.newVariants))

CalculatePurchasableStep ==
  /\ lastOp.op = "call"
  /\ lastOp.fn = "calculatePurchasable"
  /\ Return(CalculatePurchasable(lastOp.product, lastOp.skus))

NextPure ==
  GenerateVariantCombinationsStep \/ HasVariantsChangedStep \/ CalculatePurchasableStep

SpecPure == InitPure /\ [][NextPure]_vars

\* the function fn has returned
Returned(fn) == lastOp.op = "return" /\ lastOp.fn = fn

RECURSIVE ProductOfSizes(_)
\* n1 * n2 * ... * nk for the value counts of the axes, 1 for no axis
ProductOfSizes(variants) ==
  IF variants = <<>> THEN 1
  ELSE Len(Head(variants).values) * ProductOfSizes(Tail(variants))

PairwiseDistinct(combinations) ==
  \A i, j \in 1..Len(combinations) :
    i # j => AsMapping(combinations[i]) # AsMapping(combinations[j])

\* no two axes share a name and no axis lists a value twice
NoDuplicates(variants) ==
  /\ \A i, j \in 1..Len(variants) : i # j => variants[i].name # variants[j].name
  /\ \A i \in 1..Len(variants) :
       \A j, k \in 1..Len(variants[i].values) :
         j # k => variants[i].values[j] # variants[i].values[k]

(***************************************************************************)
(* C15: for every list of k >= 0 axes with value counts n1..nk,            *)
(* generateVariantCombinations returns exactly n1*...*nk combinations (one,*)
(* the empty mapping, when k = 0) and they are pairwise distinct.          *)
(***************************************************************************)
C15Claim ==
  Returned("generateVariantCombinations")
    => /\ Len(lastOp.result) = ProductOfSizes(lastOp.variants)
       /\ lastOp.variants = <<>> => lastOp.result = << <<>> >>
       /\ PairwiseDistinct(lastOp.result)

\* C15 as amended: the count for every list; distinct combinations for the
\* lists without a repeated axis name or a repeated value
C15Amended ==
  Returned("generateVariantCombinations")
    => /\ Len(lastOp.result) = ProductOfSizes(lastOp.variants)
       /\ lastOp.variants = <<>> => lastOp.result = << <<>> >>
       /\ NoDuplicates(lastOp.variants) => PairwiseDistinct(lastOp.result)

\* two axes of two values each gave four distinct combinations
C15Witness ==
  /\ Returned("generateVariantCombinations")
  /\ Len(lastOp.variants) = 2
  /\ NoDuplicates(lastOp.variants)
  /\ Len(lastOp.result) = 4
  /\ PairwiseDistinct(lastOp.result)

\* the axes of the list a in the order pi
PermuteAxes(a, pi) == [i \in 1..Len(a) |-> a[pi[i]]]

\* the list a with the values of axis i in the order pi
PermuteValues(a, i, pi) ==
  [a EXCEPT ![i].values = [j \in 1..Len(a[i].values) |-> a[i].values[pi[j]]]]

(***************************************************************************)
(* C16: hasVariantsChanged(A, B) = hasVariantsChanged(B, A) for all        *)
(* variant lists A and B, null included, and permuting the axes of A or    *)
(* the values inside an axis of A does not change hasVariantsChanged(A, B).*)
(***************************************************************************)
C16Claim ==
  Returned("hasVariantsChanged")
    => /\ HasVariantsChanged(lastOp.newVariants, lastOp.oldVariants) = lastOp.result
       /\ lastOp.oldVariants.some
            => LET a == lastOp.oldVariants.val
               IN /\ \A pi \in Permutations(1..Len(a)) :
                       HasVariantsChanged(Some(PermuteAxes(a, pi)), lastOp.newVariants)
                         = lastOp.result
                  /\ \A i \in 1..Len(a) :
                       \A pi \in Permutations(1..Len(a[i].values)) :
                         HasVariantsChanged(Some(PermuteValues(a, i, pi)),
                                            lastOp.newVariants)
                           = lastOp.result

(***************************************************************************)
(* C17: calculatePurchasable returns false when the product is not         *)
(* published, when skus is empty or absent and when skus are bare id       *)
(* references; otherwise it returns true exactly when some SKU of the list *)
(* has quantity > 0, whatever its position.                                *)
(***************************************************************************)
C17Theorem ==
  Returned("calculatePurchasable")
    => (lastOp.result
          <=> /\ lastOp.product.status = "published"
              /\ lastOp.skus.some
              /\ \E i \in 1..Len(lastOp.skus.val) :
                   /\ Has(lastOp.skus.val[i], "quantity")
                   /\ lastOp.skus.val[i].quantity > 0)

\* a published product whose only SKU in stock is the last of the list
C17Witness ==
  /\ Returned("calculatePurchasable")
  /\ lastOp.product.status = "published"
  /\ lastOp.skus.some
  /\ Len(lastOp.skus.val) = MaxSkus
  /\ \A i \in 1..Len(lastOp.skus.val) :
       /\ Has(lastOp.skus.val[i], "quantity")
       /\ lastOp.skus.val[i].quantity > 0 <=> i = MaxSkus
  /\ lastOp.result

(***************************************************************************)
(* C18: update, remove, updateSkus and findOne called with a malformed     *)
(* product id fail with the error 'Invalid product ID' and change no       *)
(* stored product and no stored SKU.                                       *)
(***************************************************************************)
C18Theorem ==
  [][(/\ lastOp = NoCall
      /\ lastOp'.op \in {"update", "remove", "updateSkus", "findOne"}
      /\ lastOp'.id = MalformedId)
       => /\ lastOp'.err = BadRequest("Invalid product ID")
          /\ products' = products
          /\ skus' = skus]_vars

\* updateSkus was refused for its malformed id while a product with SKUs is
\* stored
C18Witness ==
  /\ lastOp.op = "updateSkus"
  /\ lastOp.id = MalformedId
  /\ lastOp.err = BadRequest("Invalid product ID")
  /\ \E p \in DOMAIN products : SkuIdsOf(skus, p) # {}

(***************************************************************************)
(* create and update with the request on record: lastOp also holds the DTO *)
(* of the call.                                                            *)
(***************************************************************************)
CreateRequest(id, dto, userId) ==
  /\ id \notin DOMAIN products
  /\ LET r == CreateBody(CurrentDb, collections, id, dto, userId, 0)
     IN Commit(WithTransaction(CurrentDb, r),
               Spread(Call("create", id, userId, 0, Has(dto, "variants"), r.err),
                      [dto |-> dto]))

UpdateRequest(id, dto, userId) ==
  IF ~IsValidObjectId(id)
  THEN Commit(CurrentDb,
              Spread(Call("update", id, userId, 0, Has(dto, "variants"),
                          BadRequest("Invalid product ID")),
                     [dto |-> dto]))
  ELSE LET r == UpdateBody(CurrentDb, collections, id, dto, userId, 0)
       IN Commit(WithTransaction(CurrentDb, r),
                 Spread(Call("update", id, userId, 0, Has(dto, "variants"), r.err),
                        [dto |-> dto]))

\* two axes that share a name and generate the combination {color: red} twice
VSharedName == <<Axis("color", <<"red", "blue">>), Axis("color", <<"red">>)>>

RequestCreateDtos ==
  CreateDtos \cup {Spread(b, [variants |-> VSharedName]) : b \in {DraftDto, PublishedDto}}

RequestPatches ==
  Patches \cup {[variants |-> VSharedName],
                [status |-> "published", variants |-> VSharedName]}

CreateRequestStep ==
  \E id \in ProductIds, dto \in RequestCreateDtos, userId \in Creators :
    CreateRequest(id, dto, userId)

UpdateRequestStep ==
  \E id \in ProductIds, dto \in RequestPatches, userId \in Users :
    UpdateRequest(id, dto, userId)

NextVariants == CreateRequestStep \/ UpdateRequestStep \/ RemoveStep \/ Respond

SpecVariants == Init /\ [][NextVariants]_vars

\* the DTO has variants that generate the same mapping twice
GeneratesDuplicates(dto) ==
  /\ Has(dto, "variants")
  /\ ~PairwiseDistinct(GenerateVariantCombinations(dto.variants))

\* the call reaches the generation of SKUs: the product exists and is the
\* caller's (update) and the product the DTO describes passes validateProduct
ReachesGeneration(call) ==
  IF call.op = "create" THEN ValidateProduct(call.dto) = NoErr
  ELSE /\ call.id \in DOMAIN products
       /\ products[call.id].userId = call.userId
       /\ ValidateProduct(Spread(products[call.id], call.dto)) = NoErr

(***************************************************************************)
(* C19: a create or update whose variants generate two combinations that   *)
(* are the same mapping (an axis repeats a value, or two axes share a      *)
(* name) fails and stores no product change and no SKU; the error is the   *)
(* conflict error whenever the call passes the checks that come before the *)
(* generation of SKUs (existence, ownership, validation).                  *)
(***************************************************************************)
C19Theorem ==
  [][(/\ lastOp = NoCall
      /\ lastOp'.op \in {"create", "update"}
      /\ GeneratesDuplicates(lastOp'.dto))
       => /\ lastOp'.err # NoErr
          /\ products' = products
          /\ skus' = skus
          /\ ReachesGeneration(lastOp')
               => lastOp'.err = Conflict("Duplicate variant combinations found")]_vars

\* an update that repeats a value in an axis was refused with the conflict
\* error on a product that keeps its two SKUs
C19Witness ==
  /\ lastOp.op = "update"
  /\ Has(lastOp, "dto")
  /\ GeneratesDuplicates(lastOp.dto)
  /\ lastOp.err = Conflict("Duplicate variant combinations found")
  /\ lastOp.id \in DOMAIN products
  /\ Cardinality(SkuIdsOf(skus, lastOp.id)) = 2

(***************************************************************************)
(* Concurrent updates of one product.  Each update call runs its callback  *)
(* in a transaction of its own session: the transaction reads the snapshot *)
(* of the store taken at its first operation plus its own writes, a write  *)
(* to a document that another transaction has written since that snapshot *)
(* (committed or not) fails with a write conflict, and withTransaction     *)
(* answers a write conflict by aborting and running the callback again,    *)
(* with the same DTO object.  The calls stop between store operations:     *)
(*   start -findById-> found -deleteMany-> deleted -insertMany-> generated *)
(*   -save-> saved -commit-> committed -findById().populate-> done         *)
(* The last read is made outside the session, after the commit; committed  *)
(* is the populated product as the transaction committed it and returned   *)
(* is what the call hands back to its caller.                              *)
(***************************************************************************)
Clients == {"a", "b"}

ConcurrentVariants == {<<>>, VColor, VColorRev, VColorSize, VSizeColor}

EmptyStore == Store(<<>>, <<>>)

NoWrites == [products |-> {}, skus |-> {}]

\* the session of a call that has not started its transaction
NewSession(id, dto, userId) ==
  [pc |-> "start", id |-> id, dto |-> dto, userId |-> userId,
   snap |-> EmptyStore, db |-> EmptyStore, writes |-> NoWrites,
   retried |-> FALSE, err |-> NoErr, committed |-> None, returned |-> None]

\* the transaction of the session is open
Active(s) == s.pc \in {"found", "deleted", "generated", "saved"}

\* a document of a collection, None when the collection has no such id
Doc(coll, d) == IF d \in DOMAIN coll THEN Some(coll[d]) ELSE None

\* session t writes the documents ids of the collection kind: some of them
\* changed after the snapshot of t or is written by another open transaction
WriteConflictNever(t, kind, ids) == FALSE

WriteConflict(t, kind, ids) ==
  \E d \in ids :
    \/ Doc(CurrentDb[kind], d) # Doc(sessions[t].snap[kind], d)
    \/ \E u \in Clients \ {t} :
         Active(sessions[u]) /\ d \in sessions[u].writes[kind]

\* ObjectIds in use anywhere: stored, written in a transaction or held by
\* the DTO of a call
SessionSkuIds(s) ==
  UsedSkuIds(s.db) \cup (IF Has(s.dto, "skus") THEN ToSet(s.dto.skus) ELSE {})

AllSkuIds == UsedSkuIds(CurrentDb) \cup UNION {SessionSkuIds(sessions[u]) : u \in Clients}

SetSession(t, s) ==
  /\ sessions' = [sessions EXCEPT ![t] = s]
  /\ UNCHANGED <<products, skus, collections, lastOp>>

\* the transaction is aborted and the callback will run again
Retry(t) ==
  SetSession(t, [sessions[t] EXCEPT !.pc = "start", !.snap = EmptyStore,
                                    !.db = EmptyStore, !.writes = NoWrites,
                                    !.retried = TRUE])

\* the callback threw: the transaction is aborted and the error rethrown
Throw(t, err) ==
  SetSession(t, [sessions[t] EXCEPT !.pc = "done", !.snap = EmptyStore,
                                    !.db = EmptyStore, !.writes = NoWrites,
                                    !.err = err])

SessionVariantsChanged(s) ==
  HasVariantsChanged(Some(s.db.products[s.id].variants), DtoVariants(s.dto))

\* findById, ownership check and validateProduct
SessionFindById(t) ==
  LET s == sessions[t]
  IN /\ s.pc = "start"
     /\ IF s.id \notin DOMAIN products
        THEN Throw(t, NotFound("Product not found"))
        ELSE IF ~IsOwner(products[s.id], s.userId)
        THEN Throw(t, BadRequest("You can only update your own products"))
        ELSE IF ValidateProduct(Spread(products[s.id], s.dto)) # NoErr
        THEN Throw(t, ValidateProduct(Spread(products[s.id], s.dto)))
        ELSE SetSession(t, [s EXCEPT !.pc = "found", !.snap = CurrentDb,
                                      !.db = CurrentDb])

\* skuModel.deleteMany({ productId }).session(session)
SessionDeleteMany(t) ==
  LET s == sessions[t]
      ids == SkuIdsOf(s.db.skus, s.id)
  IN /\ s.pc = "found"
     /\ SessionVariantsChanged(s)
     /\ IF WriteConflict(t, "skus", ids) THEN Retry(t)
        ELSE SetSession(t, [s EXCEPT !.pc = "deleted",
                                      !.db.skus = DeleteMany(s.db.skus, s.id),
                                      !.writes.skus = @ \cup ids])

\* generateSkus and updateProductDto.skus = ..., or updateProductDto.skus = []
SessionGenerateSkus(t) ==
  LET s == sessions[t]
      gen == GenerateSkus(s.db, AllSkuIds, s.id, s.dto.variants, 0, 1)
  IN /\ s.pc = "deleted"
     /\ IF ~HasNonEmptyVariants(s.dto)
        THEN SetSession(t, [s EXCEPT !.pc = "generated",
                                      !.dto = Spread(s.dto, [skus |-> <<>>])])
        ELSE IF gen.err # NoErr THEN Throw(t, gen.err)
        ELSE SetSession(t, [s EXCEPT !.pc = "generated", !.db = gen.db,
                                      !.dto = Spread(s.dto, [skus |-> gen.ids]),
                                      !.writes.skus = @ \cup ToSet(gen.ids)])

\* Object.assign, calculatePurchasable and product.save({ session })
SessionSave(t) ==
  LET s == sessions[t]
      assigned == AssignProduct(s.db.products[s.id], s.dto)
      updated == [assigned EXCEPT !.purchasable =
                    CalculatePurchasable(assigned, Some(BareRefs(assigned.skus)))]
  IN /\ \/ s.pc = "generated"
        \/ s.pc = "found" /\ ~SessionVariantsChanged(s)
     /\ IF SchemaError(updated) # NoErr THEN Throw(t, SchemaError(updated))
        ELSE IF WriteConflict(t, "products", {s.id}) THEN Retry(t)
        ELSE SetSession(t, [s EXCEPT !.pc = "saved",
                                      !.db.products[s.id] = updated,
                                      !.writes.products = @ \cup {s.id}])

\* productModel.findById(id).populate('skus'): the product with the stored
\* documents of its skus, None (null) when no product has the id
Populate(db, id) ==
  IF id \notin DOMAIN db.products THEN None
  ELSE Some([db.products[id] EXCEPT
               !.skus = Documents(db.skus, PresentIds(db.skus, db.products[id].skus))])

\* the callback returned: the writes of the transaction reach the store
SessionCommit(t) ==
  LET s == sessions[t]
      keptSkus == ((DOMAIN skus) \ s.writes.skus)
                    \cup (s.writes.skus \cap DOMAIN s.db.skus)
  IN /\ s.pc = "saved"
     /\ products' = [p \in DOMAIN products |->
                       IF p \in s.writes.products THEN s.db.products[p]
                       ELSE products[p]]
     /\ skus' = [i \in keptSkus |->
                   IF i \in s.writes.skus THEN s.db.skus[i] ELSE skus[i]]
     /\ sessions' = [sessions EXCEPT ![t] =
                       [s EXCEPT !.pc = "committed", !.snap = EmptyStore,
                                 !.db = EmptyStore, !.writes = NoWrites,
                                 !.committed = Populate(Store(products', skus'), s.id)]]
     /\ UNCHANGED <<collections, lastOp>>

\* return this.productModel.findById(id).populate('skus'), after the commit
\* and outside the session
SessionReturn(t) ==
  LET s == sessions[t]
  IN /\ s.pc = "committed"
     /\ SetSession(t, [s EXCEPT !.pc = "done", !.returned = Populate(CurrentDb, s.id)])

\* a product created with some variants, and two update calls by its owner
\* whose variants differ from each other
InitConcurrent ==
  \E b \in {DraftDto, PublishedDto}, v0, va, vb \in ConcurrentVariants :
    LET r == CreateBody(EmptyStore, [c \in CollectionIds |-> [isActive |-> TRUE]],
                        "p1", Spread(b, [variants |-> v0]), "u1", 0)
    IN /\ r.err = NoErr
       /\ NormalizeVariants(va) # NormalizeVariants(vb)
       /\ products = r.db.products
       /\ skus = r.db.skus
       /\ collections = [c \in CollectionIds |-> [isActive |-> TRUE]]
       /\ lastOp = NoCall
       /\ sessions = [t \in Clients |->
                        NewSession("p1", [variants |-> IF t = "a" THEN va ELSE vb],
                                   "u1")]

NextConcurrent ==
  \E t \in Clients :
    \/ SessionFindById(t)
    \/ SessionDeleteMany(t)
    \/ SessionGenerateSkus(t)
    \/ SessionSave(t)
    \/ SessionCommit(t)
    \/ SessionReturn(t)

SpecConcurrent == InitConcurrent /\ [][NextConcurrent]_vars

\* the product's skus list and the stored SKUs of the product are the SKUs
\* generated for the variants it holds
SkusMatchVariants(p) ==
  LET refs == products[p].skus
      combinations == IF Len(products[p].variants) = 0 THEN <<>>
                      ELSE GenerateVariantCombinations(products[p].variants)
  IN /\ ToSet(refs) = SkuIdsOf(skus, p)
     /\ Len(refs) = Len(combinations)
     /\ Cardinality(ToSet(refs)) = Len(refs)
     /\ \A k \in 1..Len(refs) :
          /\ refs[k] \in DOMAIN skus
          /\ skus[refs[k]].variantCombination = combinations[k]
          /\ skus[refs[k]].price = 0
          /\ skus[refs[k]].quantity = 0

BothFinished == \A t \in Clients : sessions[t].pc = "done"

(***************************************************************************)
(* C20: for every interleaving of two concurrent updates of one product    *)
(* that carry different variant sets, once both have finished the product  *)
(* holds the variants of one of them, and its skus list and the stored     *)
(* SKUs of the product are exactly the SKUs generated for those variants:  *)
(* no SKU of the other update is left over and none is missing.            *)
(***************************************************************************)
C20Theorem ==
  (DOMAIN sessions = Clients /\ BothFinished)
    => /\ \A t \in Clients : sessions[t].err = NoErr
       /\ \A p \in DOMAIN products :
            /\ \E t \in Clients : products[p].variants = sessions[t].dto.variants
            /\ SkusMatchVariants(p)
       /\ \A i \in DOMAIN skus : skus[i].productId \in DOMAIN products

\* both updates have finished, one of them after a write conflict and a
\* second run of its callback, and the product has two SKUs
C20Witness ==
  /\ DOMAIN sessions = Clients
  /\ BothFinished
  /\ \E t \in Clients : sessions[t].retried
  /\ \E p \in DOMAIN products : Cardinality(SkuIdsOf(skus, p)) = 2

(***************************************************************************)
(* Two products and update DTOs that carry a skus list of their own        *)
(* (UpdateProductDto.skus), alone or together with a variants key.         *)
(***************************************************************************)
RefProductIds == {"p1", "p2"}

RefCreateDtos == {DraftDto, Spread(PublishedDto, [variants |-> VColor])}

\* SKU id lists a caller can send: none, or an id generated earlier
RefSkuLists == {<<>>, <<1>>}

RefPatches ==
  {[title |-> "T"], [variants |-> <<>>], [variants |-> VColor],
   [variants |-> VColorRev]}
    \cup {[skus |-> l] : l \in RefSkuLists}
    \cup {[variants |-> v, skus |-> l] : v \in {<<>>, VColor}, l \in RefSkuLists}

CreateRefStep ==
  \E id \in RefProductIds, dto \in RefCreateDtos, userId \in Creators :
    Create(id, dto, userId, 0)

UpdateRefStep ==
  \E id \in RefProductIds, dto \in RefPatches, userId \in Creators :
    Update(id, dto, userId, 0)

RemoveRefStep == \E id \in RefProductIds, userId \in Creators : Remove(id, userId, 0)

NextRefs == CreateRefStep \/ UpdateRefStep \/ RemoveRefStep \/ Respond

SpecRefs == Init /\ [][NextRefs]_vars

(***************************************************************************)
(* C21: in every reachable state every id in a product's skus list names a *)
(* stored SKU whose productId is that product, every stored SKU's          *)
(* productId names a stored product that lists the SKU, and no SKU is      *)
(* listed by two products; update DTOs that carry a skus list included.    *)
(***************************************************************************)
C21Claim ==
  /\ \A p \in DOMAIN products :
       \A k \in 1..Len(products[p].skus) :
         /\ products[p].skus[k] \in DOMAIN skus
         /\ skus[products[p].skus[k]].productId = p
  /\ \A i \in DOMAIN skus :
       /\ skus[i].productId \in DOMAIN products
       /\ i \in ToSet(products[skus[i].productId].skus)
  /\ \A p, q \in DOMAIN products :
       p # q => ToSet(products[p].skus) \cap ToSet(products[q].skus) = {}

(***************************************************************************)
(* create with the request on record, over every field the checks of a     *)
(* published product read (a whitespace-only title included), while the    *)
(* collection is activated and deactivated.                                *)
(***************************************************************************)
OrderCreateDtos ==
  ValCreateDtos
    \cup {[dto EXCEPT !.title = " "] : dto \in {d \in ValCreateDtos : d.title = "T"}}
    \cup {Spread(d, [variants |-> <<>>]) :
            d \in {x \in ValCreateDtos : x.status = "published" /\ ~Has(x, "variants")}}
    \cup {Spread(PublishedDto, [variants |-> <<Axis("color", <<>>)>>])}

CreateOrderStep ==
  \E id \in ProductIds, dto \in OrderCreateDtos, userId \in Creators :
    CreateRequest(id, dto, userId)

NextOrder == CreateOrderStep \/ RemoveStep \/ CollectionUpdateStep \/ Respond

SpecOrder == Init /\ [][NextOrder]_vars

\* the checks of a published candidate, as rules on the DTO
MissingRequired(dto) ==
  Falsy(dto, "title") \/ Falsy(dto, "description") \/ Falsy(dto, "collectionId")

MissingTypeField(dto) ==
  \/ dto.type = "physical" /\ Falsy(dto, "shippingModel")
  \/ dto.type = "digital" /\ Falsy(dto, "fileUrl")

CollectionRuleError(dto, colls) ==
  IF dto.collectionId \notin DOMAIN colls THEN NotFound("Collection not found")
  ELSE IF ~colls[dto.collectionId].isActive THEN BadRequest("Collection is not active")
  ELSE NoErr

\* the candidate gives rise to no SKU
GeneratesNoSku(dto) ==
  \/ ~Has(dto, "variants")
  \/ Len(dto.variants) = 0
  \/ ProductOfSizes(dto.variants) = 0

\* the error of the first rule the published candidate violates, in the order
\* required fields, type-specific field, collection, at least one SKU
FirstFailingCheck(dto, colls) ==
  IF MissingRequired(dto)
  THEN BadRequest("Published products require title, description, and collection")
  ELSE IF MissingTypeField(dto)
  THEN IF dto.type = "physical"
       THEN BadRequest("Physical products require shipping model")
       ELSE BadRequest("Digital products require file URL")
  ELSE IF CollectionRuleError(dto, colls) # NoErr THEN CollectionRuleError(dto, colls)
  ELSE IF GeneratesNoSku(dto)
  THEN BadRequest("Published products must have at least one SKU")
  ELSE NoErr

(***************************************************************************)
(* C22: when the published candidate of a create violates one or more of   *)
(* the rules required fields, type-specific field, existing and active     *)
(* collection, at least one SKU, the error of the call is the error of the *)
(* first violated rule in that order.                                      *)
(***************************************************************************)
C22Claim ==
  [][(/\ lastOp = NoCall
      /\ lastOp'.op = "create"
      /\ lastOp'.dto.status = "published"
      /\ FirstFailingCheck(lastOp'.dto, collections) # NoErr)
       => lastOp'.err = FirstFailingCheck(lastOp'.dto, collections)]_vars

\* the step is a create of a published candidate whose variants list is
\* absent or empty
CreatesPublishedWithoutVariants ==
  /\ lastOp = NoCall
  /\ lastOp'.op = "create"
  /\ lastOp'.dto.status = "published"
  /\ ~HasNonEmptyVariants(lastOp'.dto)

AtLeastOneSkuError == BadRequest("Published products must have at least one SKU")

\* the candidate passes everything create checks before it looks for SKUs:
\* validateProduct, the collection check and the validation of the document
PassesEarlierChecks(call, colls) ==
  /\ ValidateProduct(call.dto) = NoErr
  /\ ValidateCollectionExists(colls, call.dto.collectionId, 0, 1) = NoErr
  /\ SchemaError(NewProduct(call.dto, call.userId)) = NoErr

(***************************************************************************)
(* C23: a create of a published candidate with an empty or absent variants *)
(* list always fails with the error 'Published products must have at least *)
(* one SKU' and stores no product and no SKU.                              *)
(***************************************************************************)
C23Claim ==
  [][CreatesPublishedWithoutVariants
       => /\ lastOp'.err = AtLeastOneSkuError
          /\ products' = products
          /\ skus' = skus]_vars

\* C23 as amended: the create always fails and stores nothing; its error is
\* the at-least-one-SKU error when the candidate passes the earlier checks
C23Amended ==
  [][CreatesPublishedWithoutVariants
       => /\ lastOp'.err # NoErr
          /\ products' = products
          /\ skus' = skus
          /\ lastOp'.id \notin DOMAIN products'
          /\ PassesEarlierChecks(lastOp', collections)
               => lastOp'.err = AtLeastOneSkuError]_vars

\* a complete published candidate with an empty variants list was refused
\* for having no SKU, and nothing is stored
C23Witness ==
  /\ lastOp.op = "create"
  /\ Has(lastOp, "dto")
  /\ lastOp.dto.status = "published"
  /\ Has(lastOp.dto, "variants")
  /\ lastOp.dto.variants = <<>>
  /\ lastOp.err = AtLeastOneSkuError
  /\ products = <<>>
  /\ skus = <<>>

\* the step is a create whose candidate names a collection that is not
\* stored or not active
CreatesInUnusableCollection ==
  /\ lastOp = NoCall
  /\ lastOp'.op = "create"
  /\ Truthy(lastOp'.dto, "collectionId")
  /\ CollectionRuleError(lastOp'.dto, collections) # NoErr

(***************************************************************************)
(* C24: a create whose candidate carries a collectionId is rejected and    *)
(* stores nothing when the collection does not exist or is inactive, for   *)
(* draft candidates as for published ones; for a candidate that passes     *)
(* validateProduct the error is 'Collection not found' (not-found class)   *)
(* or 'Collection is not active' (validation class).                       *)
(***************************************************************************)
C24Theorem ==
  [][CreatesInUnusableCollection
       => /\ lastOp'.err # NoErr
          /\ products' = products
          /\ skus' = skus
          /\ lastOp'.id \notin DOMAIN products'
          /\ ValidateProduct(lastOp'.dto) = NoErr
               => lastOp'.err =
                    (IF lastOp'.dto.collectionId \in DOMAIN collections
                     THEN BadRequest("Collection is not active")
                     ELSE NotFound("Collection not found"))]_vars

\* a draft with variants was refused because its collection is inactive
C24Witness ==
  /\ lastOp.op = "create"
  /\ Has(lastOp, "dto")
  /\ lastOp.dto.status = "draft"
  /\ Has(lastOp.dto, "variants")
  /\ Truthy(lastOp.dto, "collectionId")
  /\ lastOp.dto.collectionId \in DOMAIN collections
  /\ ~collections[lastOp.dto.collectionId].isActive
  /\ lastOp.err = BadRequest("Collection is not active")
  /\ products = <<>>
  /\ skus = <<>>

(***************************************************************************)
(* C25: updateSkus called by the owner of a product whose skus list is     *)
(* empty fails with 'Product has no SKUs to update' for every patch list,  *)
(* the empty one included, and changes no product and no SKU.              *)
(***************************************************************************)
C25Theorem ==
  [][(UpdateSkusByOwner /\ Len(products[lastOp'.id].skus) = 0)
       => /\ lastOp'.err = BadRequest("Product has no SKUs to update")
          /\ products' = products
          /\ skus' = skus]_vars

\* an empty patch list was refused on a product without SKUs
C25Witness ==
  /\ lastOp.op = "updateSkus"
  /\ Has(lastOp, "patches")
  /\ lastOp.patches = <<>>
  /\ lastOp.id \in DOMAIN products
  /\ products[lastOp.id].userId = lastOp.userId
  /\ products[lastOp.id].skus = <<>>
  /\ lastOp.err = BadRequest("Product has no SKUs to update")

(***************************************************************************)
(* update, remove and updateSkus with the request on record, called by the *)
(* owner and by another user, with well-formed and malformed ids, with     *)
(* DTOs and patches that the operation-specific checks refuse.             *)
(***************************************************************************)
ChecksCreateDtos ==
  {DraftDto, Spread(DraftDto, [variants |-> VColor]),
   Spread(PublishedDto, [variants |-> VColor])}

ChecksPatches ==
  {[title |-> "T"], [status |-> "published"], [title |-> ""],
   [collectionId |-> MissingCollectionId], [variants |-> VDupValue]}

ChecksSkuPatchLists ==
  {<<>>} \cup {<< [variantCombination |-> c, quantity |-> MaxQty] >> :
                 c \in PatchCombinations}

CreateChecksStep ==
  \E id \in ProductIds, dto \in ChecksCreateDtos, userId \in Creators :
    Create(id, dto, userId, 0)

UpdateChecksStep ==
  \E id \in ProductIds \cup {MalformedId}, dto \in ChecksPatches, userId \in Users :
    UpdateRequest(id, dto, userId)

UpdateSkusChecksStep ==
  \E productId \in ProductIds \cup {MalformedId}, userId \in Users,
     patches \in ChecksSkuPatchLists :
    UpdateSkusRequest(productId, patches, userId)

NextChecks ==
  \/ CreateChecksStep \/ UpdateChecksStep \/ RemoveStep \/ UpdateSkusChecksStep
  \/ Respond

SpecChecks == Init /\ [][NextChecks]_vars

\* the errors of the operation-specific checks
OperationErrors ==
  {BadRequest("Draft products require title, type, and status"),
   BadRequest("Published products require title, description, and collection"),
   BadRequest("Physical products require shipping model"),
   BadRequest("Digital products require file URL"),
   NotFound("Collection not found"), BadRequest("Collection is not active"),
   BadRequest("Product has no SKUs to update"),
   Conflict("Duplicate variant combinations found")}

(***************************************************************************)
(* C26: update, remove and updateSkus check the id format, then that the   *)
(* product exists, then that the caller owns it, then the rest: a          *)
(* malformed id gives 'Invalid product ID', a well-formed id of no product *)
(* gives 'Product not found', and a caller who is not the owner gets the   *)
(* ownership error, never a validation, collection, duplicate or           *)
(* combination-not-found error.                                            *)
(***************************************************************************)
C26Theorem ==
  [][(/\ lastOp = NoCall
      /\ lastOp'.op \in {"update", "remove", "updateSkus"})
       => /\ lastOp'.id = MalformedId
               => lastOp'.err = BadRequest("Invalid product ID")
          /\ (lastOp'.id # MalformedId /\ lastOp'.id \notin DOMAIN products)
               => lastOp'.err = NotFound("Product not found")
          /\ (lastOp'.id \in DOMAIN products
                /\ products[lastOp'.id].userId # lastOp'.userId)
               => /\ lastOp'.err = OwnershipError(lastOp'.op)
                  /\ lastOp'.err \notin OperationErrors
                  /\ lastOp'.err.msg
                       # "SKU with variant combination not found in product"]_vars

\* the other user sent an update that validateProduct refuses for the owner
\* and received the ownership error
C26Witness ==
  /\ lastOp.op = "update"
  /\ Has(lastOp, "dto")
  /\ lastOp.id \in DOMAIN products
  /\ products[lastOp.id].userId # lastOp.userId
  /\ ValidateProduct(Spread(products[lastOp.id], lastOp.dto)) # NoErr
  /\ lastOp.err = OwnershipError("update")

\* the SKU with its price and quantity put aside
WithoutPriceAndQuantity(sku) ==
  [k \in (DOMAIN sku) \ {"price", "quantity"} |-> sku[k]]

C28Claim ==
  [][(/\ UpdateSkusByOwner
      /\ Len(lastOp'.patches) > 0
      /\ \A k \in 1..Len(lastOp'.patches) :
           MatchedSkus(skus, lastOp'.id, lastOp'.patches[k]) # {})
       => /\ lastOp'.err = NoErr
          /\ \A i \in SkuIdsOf(skus, lastOp'.id) :
               /\ skus'[i].price
                    = Overwritten(skus, lastOp'.id, lastOp'.patches, i, "price")
               /\ skus'[i].quantity
                    = Overwritten(skus, lastOp'.id, lastOp'.patches, i, "quantity")]_vars

(***************************************************************************)
(* The two concurrent updates together with a remove of the same product   *)
(* by its owner.  The remove runs its whole transaction while no           *)
(* transaction of an update is open, so that it meets no write conflict.   *)
(***************************************************************************)
RemoveConcurrent(id, userId) ==
  LET r == RemoveBody(CurrentDb, id, userId, 0)
  IN /\ \A t \in Clients : ~Active(sessions[t])
     /\ id \in DOMAIN products
     /\ r.err = NoErr
     /\ products' = r.db.products
     /\ skus' = r.db.skus
     /\ UNCHANGED <<collections, lastOp, sessions>>

RemoveConcurrentStep == \E id \in ProductIds, userId \in Creators : RemoveConcurrent(id, userId)

NextReturn == NextConcurrent \/ RemoveConcurrentStep

SpecReturn == InitConcurrent /\ [][NextReturn]_vars

(***************************************************************************)
(* C29: an update that has succeeded returns the product, with its SKUs    *)
(* populated, exactly as its own transaction committed it, whatever other  *)
(* updates and removes of the same product run concurrently: never null    *)
(* and never the state another operation committed later.                  *)
(***************************************************************************)
C29Claim ==
  \A t \in DOMAIN sessions :
    (sessions[t].pc = "done" /\ sessions[t].err = NoErr)
      => /\ sessions[t].returned.some
         /\ sessions[t].returned = sessions[t].committed

====
